---- MODULE Spec2Model ----
(***************************************************************************)
(* Music-Playlist backend: the catalog (songs, albums, playlists), the     *)
(* Like join table with the one-way Song.liked column, and the song views. *)
(* Each service method is one action; a method's effect on the database is *)
(* the sequence of database states its db.commit() calls make visible.     *)
(* AudioService keeps downloaded previews as files named by the URL's hash. *)
(***************************************************************************)
EXTENDS Integers, Sequences, FiniteSets, TLC

VARIABLES
    songs,          \* songs table: id -> row (title, artist, album, album_id, genre, liked)
    songSeq,        \* songs.id sequence: the last id issued
    albums,         \* albums table: id -> row (title)
    albumSeq,       \* albums.id sequence
    playlists,      \* playlists table: id -> row (name, owner_id)
    playlistSeq,    \* playlists.id sequence
    playlistSongs,  \* playlist_songs table, rows in insertion order
    likes,          \* likes table, rows in insertion (created_at) order
    users,          \* users table, rows in id order (email, username)
    everLiked,      \* history: ids of the songs for which a Like row has existed
    resp,           \* the response of the last request (what the client saw)
    files,          \* audio_storage: file name (URL hash) -> chunks of the body written
    audioLast,      \* the last AudioService call: what was asked and what it returned
    audioPrev,      \* the AudioService call before that one
    inflight        \* worker -> the request it is in the middle of, statement by statement

vars == <<songs, songSeq, albums, albumSeq, playlists, playlistSeq,
          playlistSongs, likes, users, everLiked, resp, files, audioLast, audioPrev,
          inflight>>

audioVars == <<files, audioLast, audioPrev>>

catalogVars == <<songs, songSeq, albums, albumSeq, playlists, playlistSeq,
                 playlistSongs, likes, users, everLiked, resp>>

(* ------------------------------ bounds --------------------------------- *)
MaxSongs == 2
MaxAlbums == 1
MaxPlaylists == 1
MaxLikes == 2
MaxPlaylistSongs == 2
\* the chunks iter_content yields for one preview body
BodyChunks == 2
\* the rows of the users table
MaxUsers == 3

None == 0
Users == {1, 2}
Callers == Users \cup {None}

\* Text columns are sequences of characters.
Titles == {<<"X">>}
Artists == {<<"Y">>}
AlbumNames == {<<"Z">>}
Genres == {<<"G">>}
PlaylistNames == {<<"P">>}

SongPayloads ==
    [title : Titles, artist : Artists, album : AlbumNames, genre : Genres,
     album_id : {None} \cup (1 .. MaxAlbums)]

(* ----------------------------- the store ------------------------------- *)
DB ==
    [songs |-> songs, songSeq |-> songSeq, albums |-> albums, albumSeq |-> albumSeq,
     playlists |-> playlists, playlistSeq |-> playlistSeq,
     playlistSongs |-> playlistSongs, likes |-> likes, users |-> users]

Store(d) ==
    /\ songs' = d.songs
    /\ songSeq' = d.songSeq
    /\ albums' = d.albums
    /\ albumSeq' = d.albumSeq
    /\ playlists' = d.playlists
    /\ playlistSeq' = d.playlistSeq
    /\ playlistSongs' = d.playlistSongs
    /\ likes' = d.likes
    /\ users' = d.users
    /\ everLiked' = everLiked \cup {d.likes[i].song_id : i \in 1 .. Len(d.likes)}

\* db.query(Like).filter(user_id, song_id).first() is not None
LikeExists(d, user_id, song_id) ==
    \E i \in 1 .. Len(d.likes) :
        d.likes[i].user_id = user_id /\ d.likes[i].song_id = song_id

\* db.query(Like).filter(Like.song_id == song_id).first() is not None
AnyLikeExists(d, song_id) ==
    \E i \in 1 .. Len(d.likes) : d.likes[i].song_id = song_id

Response(op, status, detail, user, song, target, liked, list) ==
    [op |-> op, status |-> status, detail |-> detail, user |-> user, song |-> song,
     target |-> target, liked |-> liked, songs |-> list]

\* raise HTTPException(status_code, detail): the session is discarded uncommitted.
Raise(op, status, detail, user, song, target) ==
    [commits |-> <<>>,
     resp |-> Response(op, status, detail, user, song, target, FALSE, <<>>)]

NotFound(op, detail, user, song, target) == Raise(op, 404, detail, user, song, target)

BadRequest(op, detail, user, song, target) == Raise(op, 400, detail, user, song, target)

Forbidden(op, detail, user, song, target) == Raise(op, 403, detail, user, song, target)

\* An exception that is no HTTPException (IntegrityError, UnmappedInstanceError):
\* the framework answers 500 and the session is discarded uncommitted.
ServerError(op, user, song, target) ==
    Raise(op, 500, "Internal Server Error", user, song, target)

Put(f, k, v) == [x \in DOMAIN f \cup {k} |-> IF x = k THEN v ELSE f[x]]

Drop(f, K) == [x \in DOMAIN f \ K |-> f[x]]

Min(a, b) == IF a < b THEN a ELSE b

\* .offset(skip).limit(limit) on an ordered result
Page(rows, skip, limit) == SubSeq(rows, skip + 1, Min(Len(rows), skip + limit))

Reverse(s) == [i \in 1 .. Len(s) |-> s[Len(s) + 1 - i]]

RECURSIVE Ascending(_)
\* order_by(Song.id.asc()) over a set of ids
Ascending(S) ==
    IF S = {} THEN <<>>
    ELSE LET m == CHOOSE x \in S : \A y \in S : x <= y
         IN <<m>> \o Ascending(S \ {m})

\* ILIKE folds case: the lower-case form of one character
LowerChar(c) ==
    CASE c = "X" -> "x" [] c = "W" -> "w" [] c = "Y" -> "y" [] c = "Z" -> "z"
      [] c = "G" -> "g" [] c = "Q" -> "q" [] OTHER -> c

Lower(t) == [i \in 1 .. Len(t) |-> LowerChar(t[i])]

\* column.ilike("%q%"): q occurs in the text, case folded
ILike(text, q) ==
    \E i \in 0 .. Len(text) - Len(q) :
        SubSeq(Lower(text), i + 1, i + Len(q)) = Lower(q)

\* A foreign key column is NULL or names an existing row (PostgreSQL checks it).
AlbumFkOk(d, album_id) == album_id = None \/ album_id \in DOMAIN d.albums

(* --------------------------- SongService ------------------------------- *)
\* (mutant) without a caller the stored Song.liked column is answered
LikedForColumn(d, song_id, user_id) ==
    IF user_id # None THEN LikeExists(d, user_id, song_id)
    ELSE d.songs[song_id].liked

\* the "liked" of a song view: per user with a caller, any user without
LikedFor(d, song_id, user_id) ==
    IF user_id # None THEN LikeExists(d, user_id, song_id)
    ELSE AnyLikeExists(d, song_id)

SongView(d, song_id, user_id) == [id |-> song_id, liked |-> LikedFor(d, song_id, user_id)]

\* create_song: the liked of the answer is FALSE without a caller
CreatedLiked(d, song_id, user_id) ==
    IF user_id # None THEN LikeExists(d, user_id, song_id) ELSE FALSE

\* Song(**song_create.model_dump()): every field sent, and liked by its default
NewSongRow(p) ==
    [f \in DOMAIN p \cup {"liked"} |-> IF f = "liked" THEN FALSE ELSE p[f]]

InsertSong(d, p) ==
    [d EXCEPT !.songSeq = @ + 1, !.songs = Put(@, d.songSeq + 1, NewSongRow(p))]

create_song(d, p, user_id) ==
    IF ~AlbumFkOk(d, p.album_id) THEN ServerError("create_song", user_id, None, None)
    ELSE LET d1 == InsertSong(d, p)
             id == d1.songSeq
         IN [commits |-> <<d1>>,
             resp |-> Response("create_song", 200, "", user_id, id, None,
                               CreatedLiked(d1, id, user_id), <<>>)]

get_song(d, song_id, user_id) ==
    IF song_id \notin DOMAIN d.songs
    THEN NotFound("get_song", "Song not found", user_id, song_id, None)
    ELSE [commits |-> <<>>,
          resp |-> Response("get_song", 200, "", user_id, song_id, None,
                            LikedFor(d, song_id, user_id), <<>>)]

ListViews(d, ids, user_id) == [i \in 1 .. Len(ids) |-> SongView(d, ids[i], user_id)]

get_all_songs(d, skip, limit, user_id) ==
    LET ids == Page(Ascending(DOMAIN d.songs), skip, limit)
    IN [commits |-> <<>>,
        resp |-> Response("get_all_songs", 200, "", user_id, None, None, FALSE,
                          ListViews(d, ids, user_id))]

SearchMatches(d, q) ==
    {id \in DOMAIN d.songs :
        \/ ILike(d.songs[id].title, q)
        \/ ILike(d.songs[id].artist, q)
        \/ ILike(d.songs[id].album, q)
        \/ ILike(d.songs[id].genre, q)}

search_songs(d, q, skip, limit, user_id) ==
    LET ids == Page(Ascending(SearchMatches(d, q)), skip, limit)
    IN [commits |-> <<>>,
        resp |-> Response("search_songs", 200, "", user_id, None, None, FALSE,
                          ListViews(d, ids, user_id))]

\* setattr(song, field, value) for every field the request set
Patched(row, patch) ==
    [f \in DOMAIN row |-> IF f \in DOMAIN patch THEN patch[f] ELSE row[f]]

update_song(d, song_id, patch, user_id) ==
    IF song_id \notin DOMAIN d.songs
    THEN NotFound("update_song", "Song not found", user_id, song_id, None)
    ELSE LET row == Patched(d.songs[song_id], patch)
             d1 == [d EXCEPT !.songs[song_id] = row]
         IN IF ~AlbumFkOk(d, row.album_id)
            THEN ServerError("update_song", user_id, song_id, None)
            ELSE [commits |-> <<d1>>,
                  resp |-> Response("update_song", 200, "", user_id, song_id, None,
                                    LikedFor(d1, song_id, user_id), <<>>)]

\* Song.likes and Song.playlist_songs: cascade="all, delete-orphan"
CascadeDeleteSongs(d, ids) ==
    [d EXCEPT !.songs = Drop(@, ids),
              !.likes = SelectSeq(@, LAMBDA l : l.song_id \notin ids),
              !.playlistSongs = SelectSeq(@, LAMBDA r : r.song_id \notin ids)]

\* Session.delete(instance): only an instance of a mapped class can be deleted
SessionDeleteSong(d, obj) ==
    IF obj.mapped THEN <<CascadeDeleteSongs(d, {obj.id})>> ELSE <<>>

\* delete_song deletes what get_song returned: a SongResponse, no mapped Song
delete_song(d, song_id) ==
    LET got == get_song(d, song_id, None)
    IN IF got.resp.status # 200
       THEN NotFound("delete_song", "Song not found", None, song_id, None)
       ELSE LET song == [id |-> got.resp.song, mapped |-> FALSE]
                done == SessionDeleteSong(d, song)
            IN IF done = <<>> THEN ServerError("delete_song", None, song_id, None)
               ELSE [commits |-> done,
                     resp |-> Response("delete_song", 200, "Song deleted successfully",
                                       None, song_id, None, FALSE, <<>>)]

(* --------------------------- LikeService ------------------------------- *)
\* _add_liked_status: the view of a song for a user
AddLikedStatus(d, song_id, user_id) == LikeExists(d, user_id, song_id)

\* db.add(Like(user_id, song_id))
AddLike(d, song_id, user_id) ==
    [d EXCEPT !.likes = Append(@, [user_id |-> user_id, song_id |-> song_id])]

\* song.liked = True
SetLikedFlag(d, song_id) == [d EXCEPT !.songs[song_id].liked = TRUE]

\* (mutant) db.commit() right after db.add(like), and again after the flag
LikeCommitsSplit(d, song_id, user_id) ==
    <<AddLike(d, song_id, user_id), SetLikedFlag(AddLike(d, song_id, user_id), song_id)>>

\* (mutant) the flag update is forgotten
LikeCommitsNoFlag(d, song_id, user_id) == <<AddLike(d, song_id, user_id)>>

\* the database states like_song commits: db.add(like), song.liked = True, db.commit()
LikeCommits(d, song_id, user_id) == <<SetLikedFlag(AddLike(d, song_id, user_id), song_id)>>

\* (mutant) no duplicate check: a second like of the same pair inserts a second row
like_song_no_dup_check(d, song_id, user_id) ==
    IF song_id \notin DOMAIN d.songs
    THEN NotFound("like_song", "Song not found", user_id, song_id, None)
    ELSE LET done == LikeCommits(d, song_id, user_id)
         IN [commits |-> done,
             resp |-> Response("like_song", 200, "", user_id, song_id, None,
                               AddLikedStatus(done[Len(done)], song_id, user_id), <<>>)]

\* (mutant) no song lookup: the Like row is inserted for whatever id was sent
like_song_no_lookup(d, song_id, user_id) ==
    IF LikeExists(d, user_id, song_id)
    THEN BadRequest("like_song", "Song already liked", user_id, song_id, None)
    ELSE LET d1 == AddLike(d, song_id, user_id)
             d2 == IF song_id \in DOMAIN d.songs THEN SetLikedFlag(d1, song_id) ELSE d1
         IN [commits |-> <<d2>>,
             resp |-> Response("like_song", 200, "", user_id, song_id, None,
                               AddLikedStatus(d2, song_id, user_id), <<>>)]

like_song(d, song_id, user_id) ==
    IF song_id \notin DOMAIN d.songs
    THEN NotFound("like_song", "Song not found", user_id, song_id, None)
    ELSE IF LikeExists(d, user_id, song_id)
    THEN BadRequest("like_song", "Song already liked", user_id, song_id, None)
    ELSE LET done == LikeCommits(d, song_id, user_id)
         IN [commits |-> done,
             resp |-> Response("like_song", 200, "", user_id, song_id, None,
                               AddLikedStatus(done[Len(done)], song_id, user_id), <<>>)]

\* db.query(Song).filter(title == ..., artist == ...): the rows .first() may return
SongsByTitleArtist(d, p) ==
    {id \in DOMAIN d.songs :
        d.songs[id].title = p.title /\ d.songs[id].artist = p.artist}

\* (mutant) the lookup by (title, artist) is lost: a song is created every time
like_song_with_data_always_creates(d, p, user_id, existing) ==
    LET made == create_song(d, p, user_id)
    IN IF made.resp.status # 200
       THEN ServerError("like_song_with_data", user_id, None, None)
       ELSE LET done == made.commits \o LikeCommits(made.commits[1], made.resp.song, user_id)
            IN [commits |-> done,
                resp |-> Response("like_song_with_data", 200, "", user_id, made.resp.song,
                                  None, TRUE, <<>>)]

\* like_song_with_data; `existing` is the row .first() returned, None when no row matches
like_song_with_data(d, p, user_id, existing) ==
    LET made == IF existing # None THEN [commits |-> <<>>, resp |-> [status |-> 200]]
                ELSE create_song(d, p, user_id)
    IN IF made.resp.status # 200
       THEN ServerError("like_song_with_data", user_id, None, None)
       ELSE LET d1 == IF existing # None THEN d ELSE made.commits[1]
                song_id == IF existing # None THEN existing ELSE made.resp.song
            IN IF LikeExists(d1, user_id, song_id)
               THEN [commits |-> made.commits,
                     resp |-> Response("like_song_with_data", 400, "Song already liked",
                                       user_id, song_id, None, FALSE, <<>>)]
               ELSE LET done == made.commits \o LikeCommits(d1, song_id, user_id)
                    IN [commits |-> done,
                        resp |-> Response("like_song_with_data", 200, "", user_id,
                                          song_id, None,
                                          AddLikedStatus(done[Len(done)], song_id, user_id),
                                          <<>>)]

\* the positions of the Like rows of (user, song)
LikeRows(d, user_id, song_id) ==
    {i \in 1 .. Len(d.likes) :
        d.likes[i].user_id = user_id /\ d.likes[i].song_id = song_id}

RemoveAt(s, i) == SubSeq(s, 1, i - 1) \o SubSeq(s, i + 1, Len(s))

\* (mutant) the flag is cleared when the song's last Like row goes
unlike_song_clearing_flag(d, song_id, user_id, row) ==
    IF row = None
    THEN NotFound("unlike_song", "Like not found", user_id, song_id, None)
    ELSE LET d1 == [d EXCEPT !.likes = RemoveAt(@, row)]
             d2 == IF AnyLikeExists(d1, song_id) \/ song_id \notin DOMAIN d.songs THEN d1
                   ELSE [d1 EXCEPT !.songs[song_id].liked = FALSE]
         IN [commits |-> <<d2>>,
             resp |-> Response("unlike_song", 200, "Song unliked", user_id, song_id, None,
                               FALSE, <<>>)]

\* (mutant) unliking what is not liked succeeds silently
unlike_song_idempotent(d, song_id, user_id, row) ==
    [commits |-> IF row = None THEN <<>> ELSE <<[d EXCEPT !.likes = RemoveAt(@, row)]>>,
     resp |-> Response("unlike_song", 200, "Song unliked", user_id, song_id, None,
                       FALSE, <<>>)]

\* (mutant) the filter on user_id is lost: every Like row of the song is deleted
unlike_song_all_users(d, song_id, user_id, row) ==
    IF row = None
    THEN NotFound("unlike_song", "Like not found", user_id, song_id, None)
    ELSE [commits |-> <<[d EXCEPT !.likes = SelectSeq(@, LAMBDA l : l.song_id # song_id)]>>,
          resp |-> Response("unlike_song", 200, "Song unliked", user_id, song_id, None,
                            FALSE, <<>>)]

\* unlike_song; `row` is the position of the row .first() returned, None when no row matches
unlike_song(d, song_id, user_id, row) ==
    IF row = None
    THEN NotFound("unlike_song", "Like not found", user_id, song_id, None)
    ELSE [commits |-> <<[d EXCEPT !.likes = RemoveAt(@, row)]>>,
          resp |-> Response("unlike_song", 200, "Song unliked", user_id, song_id, None,
                            FALSE, <<>>)]

\* (mutant) the filter on user_id is lost: every user's Like rows are listed
get_user_likes_all_users(d, user_id, skip, limit) ==
    LET page == Page(Reverse(d.likes), skip, limit)
    IN [commits |-> <<>>,
        resp |-> Response("get_user_likes", 200, "", user_id, None, None, FALSE,
                          [i \in 1 .. Len(page) |->
                              [id |-> page[i].song_id,
                               liked |-> AddLikedStatus(d, page[i].song_id, user_id)]])]

\* (mutant) order_by(Like.created_at) without desc(): oldest first
get_user_likes_oldest_first(d, user_id, skip, limit) ==
    LET mine == SelectSeq(d.likes, LAMBDA l : l.user_id = user_id)
        page == Page(mine, skip, limit)
    IN [commits |-> <<>>,
        resp |-> Response("get_user_likes", 200, "", user_id, None, None, FALSE,
                          [i \in 1 .. Len(page) |->
                              [id |-> page[i].song_id,
                               liked |-> AddLikedStatus(d, page[i].song_id, user_id)]])]

\* get_user_likes: the user's Like rows, newest first, paged; then the song views
get_user_likes(d, user_id, skip, limit) ==
    LET mine == SelectSeq(d.likes, LAMBDA l : l.user_id = user_id)
        page == Page(Reverse(mine), skip, limit)
        kept == SelectSeq(page, LAMBDA l : l.song_id \in DOMAIN d.songs)
    IN [commits |-> <<>>,
        resp |-> Response("get_user_likes", 200, "", user_id, None, None, FALSE,
                          [i \in 1 .. Len(kept) |->
                              [id |-> kept[i].song_id,
                               liked |-> AddLikedStatus(d, kept[i].song_id, user_id)]])]

(* --------------------------- AlbumService ------------------------------ *)
create_album(d, title) ==
    LET id == d.albumSeq + 1
    IN [commits |-> <<[d EXCEPT !.albumSeq = id, !.albums = Put(@, id, [title |-> title])]>>,
        resp |-> Response("create_album", 200, "", None, None, id, FALSE, <<>>)]

update_album(d, album_id, patch) ==
    IF album_id \notin DOMAIN d.albums
    THEN NotFound("update_album", "Album not found", None, None, album_id)
    ELSE [commits |-> <<[d EXCEPT !.albums[album_id] = Patched(@, patch)]>>,
          resp |-> Response("update_album", 200, "", None, None, album_id, FALSE, <<>>)]

\* Album.songs: cascade="all, delete-orphan"
AlbumSongs(d, album_id) == {id \in DOMAIN d.songs : d.songs[id].album_id = album_id}

\* (mutant) only the Song rows go with the album: their Like and PlaylistSong rows stay
delete_album_songs_only(d, album_id) ==
    IF album_id \notin DOMAIN d.albums
    THEN NotFound("delete_album", "Album not found", None, None, album_id)
    ELSE [commits |-> <<[d EXCEPT !.albums = Drop(@, {album_id}),
                                  !.songs = Drop(@, AlbumSongs(d, album_id))]>>,
          resp |-> Response("delete_album", 200, "Album deleted successfully", None,
                            None, album_id, FALSE, <<>>)]

delete_album(d, album_id) ==
    IF album_id \notin DOMAIN d.albums
    THEN NotFound("delete_album", "Album not found", None, None, album_id)
    ELSE LET d1 == CascadeDeleteSongs(d, AlbumSongs(d, album_id))
         IN [commits |-> <<[d1 EXCEPT !.albums = Drop(@, {album_id})]>>,
             resp |-> Response("delete_album", 200, "Album deleted successfully", None,
                               None, album_id, FALSE, <<>>)]

\* (mutant) the foreign key and the album name are committed one after the other
add_song_to_album_two_commits(d, album_id, song_id) ==
    IF album_id \notin DOMAIN d.albums
    THEN NotFound("add_song_to_album", "Album not found", None, song_id, album_id)
    ELSE IF song_id \notin DOMAIN d.songs
    THEN NotFound("add_song_to_album", "Song not found", None, song_id, album_id)
    ELSE LET d1 == [d EXCEPT !.songs[song_id].album_id = album_id]
         IN [commits |-> <<d1, [d1 EXCEPT !.songs[song_id].album = d.albums[album_id].title]>>,
             resp |-> Response("add_song_to_album", 200, "", None, song_id, album_id,
                               d.songs[song_id].liked, <<>>)]

\* add_song_to_album answers the Song row itself: its liked is the stored column
add_song_to_album(d, album_id, song_id) ==
    IF album_id \notin DOMAIN d.albums
    THEN NotFound("add_song_to_album", "Album not found", None, song_id, album_id)
    ELSE IF song_id \notin DOMAIN d.songs
    THEN NotFound("add_song_to_album", "Song not found", None, song_id, album_id)
    ELSE [commits |-> <<[d EXCEPT !.songs[song_id].album_id = album_id,
                                  !.songs[song_id].album = d.albums[album_id].title]>>,
          resp |-> Response("add_song_to_album", 200, "", None, song_id, album_id,
                            d.songs[song_id].liked, <<>>)]

(* -------------------------- PlaylistService ---------------------------- *)
create_playlist(d, name, user_id) ==
    LET id == d.playlistSeq + 1
    IN [commits |-> <<[d EXCEPT !.playlistSeq = id,
                                !.playlists = Put(@, id, [name |-> name, owner_id |-> user_id])]>>,
        resp |-> Response("create_playlist", 200, "", user_id, None, id, FALSE, <<>>)]

\* (mutant) the owner check is lost: any user passes
PlaylistGuardNoOwner(d, op, what, playlist_id, song_id, user_id) ==
    IF playlist_id \notin DOMAIN d.playlists
    THEN NotFound(op, "Playlist not found", user_id, song_id, playlist_id)
    ELSE [commits |-> <<>>, resp |-> [status |-> 200]]

\* get_playlist, then the owner check: the error a mutating call raises first, if any
PlaylistGuard(d, op, what, playlist_id, song_id, user_id) ==
    IF playlist_id \notin DOMAIN d.playlists
    THEN NotFound(op, "Playlist not found", user_id, song_id, playlist_id)
    ELSE IF d.playlists[playlist_id].owner_id # user_id
    THEN Forbidden(op, what, user_id, song_id, playlist_id)
    ELSE [commits |-> <<>>, resp |-> [status |-> 200]]

update_playlist(d, playlist_id, patch, user_id) ==
    LET g == PlaylistGuard(d, "update_playlist", "Not authorized to update this playlist",
                          playlist_id, None, user_id)
    IN IF g.resp.status # 200 THEN g
       ELSE [commits |-> <<[d EXCEPT !.playlists[playlist_id] = Patched(@, patch)]>>,
             resp |-> Response("update_playlist", 200, "", user_id, None, playlist_id,
                               FALSE, <<>>)]

\* (mutant) the Playlist row goes and its PlaylistSong rows stay
delete_playlist_row_only(d, playlist_id, user_id) ==
    LET g == PlaylistGuard(d, "delete_playlist", "Not authorized to delete this playlist",
                          playlist_id, None, user_id)
    IN IF g.resp.status # 200 THEN g
       ELSE [commits |-> <<[d EXCEPT !.playlists = Drop(@, {playlist_id})]>>,
             resp |-> Response("delete_playlist", 200, "Playlist deleted successfully",
                               user_id, None, playlist_id, FALSE, <<>>)]

\* Playlist.songs: cascade="all, delete-orphan"
delete_playlist(d, playlist_id, user_id) ==
    LET g == PlaylistGuard(d, "delete_playlist", "Not authorized to delete this playlist",
                          playlist_id, None, user_id)
    IN IF g.resp.status # 200 THEN g
       ELSE [commits |-> <<[d EXCEPT !.playlists = Drop(@, {playlist_id}),
                                     !.playlistSongs =
                                         SelectSeq(@, LAMBDA r : r.playlist_id # playlist_id)]>>,
             resp |-> Response("delete_playlist", 200, "Playlist deleted successfully",
                               user_id, None, playlist_id, FALSE, <<>>)]

\* the positions of the PlaylistSong rows of (playlist, song)
PlaylistSongRows(d, playlist_id, song_id) ==
    {i \in 1 .. Len(d.playlistSongs) :
        /\ d.playlistSongs[i].playlist_id = playlist_id
        /\ d.playlistSongs[i].song_id = song_id}

\* (mutant) no membership check: a song already in the playlist is added again
add_song_to_playlist_no_dup_check(d, playlist_id, song_id, user_id) ==
    LET g == PlaylistGuard(d, "add_song_to_playlist", "Not authorized to modify this playlist",
                          playlist_id, song_id, user_id)
    IN IF g.resp.status # 200 THEN g
       ELSE IF song_id \notin DOMAIN d.songs
       THEN NotFound("add_song_to_playlist", "Song not found", user_id, song_id, playlist_id)
       ELSE [commits |-> <<[d EXCEPT !.playlistSongs =
                               Append(@, [playlist_id |-> playlist_id, song_id |-> song_id])]>>,
             resp |-> Response("add_song_to_playlist", 200, "", user_id, song_id,
                               playlist_id, FALSE, <<>>)]

add_song_to_playlist(d, playlist_id, song_id, user_id) ==
    LET g == PlaylistGuard(d, "add_song_to_playlist", "Not authorized to modify this playlist",
                          playlist_id, song_id, user_id)
    IN IF g.resp.status # 200 THEN g
       ELSE IF song_id \notin DOMAIN d.songs
       THEN NotFound("add_song_to_playlist", "Song not found", user_id, song_id, playlist_id)
       ELSE IF PlaylistSongRows(d, playlist_id, song_id) # {}
       THEN BadRequest("add_song_to_playlist", "Song already in playlist", user_id, song_id,
                       playlist_id)
       ELSE [commits |-> <<[d EXCEPT !.playlistSongs =
                               Append(@, [playlist_id |-> playlist_id, song_id |-> song_id])]>>,
             resp |-> Response("add_song_to_playlist", 200, "", user_id, song_id,
                               playlist_id, FALSE, <<>>)]

\* (mutant) the filter on song_id is lost: every song leaves the playlist
remove_every_song_from_playlist(d, playlist_id, song_id, user_id, row) ==
    LET g == PlaylistGuard(d, "remove_song_from_playlist", "Not authorized to modify this playlist",
                          playlist_id, song_id, user_id)
    IN IF g.resp.status # 200 THEN g
       ELSE IF row = None
       THEN NotFound("remove_song_from_playlist", "Song not in playlist", user_id, song_id,
                     playlist_id)
       ELSE [commits |-> <<[d EXCEPT !.playlistSongs =
                               SelectSeq(@, LAMBDA r : r.playlist_id # playlist_id)]>>,
             resp |-> Response("remove_song_from_playlist", 200, "Song removed from playlist",
                               user_id, song_id, playlist_id, FALSE, <<>>)]

\* remove_song_from_playlist; `row` is the position of the row .first() returned
remove_song_from_playlist(d, playlist_id, song_id, user_id, row) ==
    LET g == PlaylistGuard(d, "remove_song_from_playlist", "Not authorized to modify this playlist",
                          playlist_id, song_id, user_id)
    IN IF g.resp.status # 200 THEN g
       ELSE IF row = None
       THEN NotFound("remove_song_from_playlist", "Song not in playlist", user_id, song_id,
                     playlist_id)
       ELSE [commits |-> <<[d EXCEPT !.playlistSongs = RemoveAt(@, row)]>>,
             resp |-> Response("remove_song_from_playlist", 200, "Song removed from playlist",
                               user_id, song_id, playlist_id, FALSE, <<>>)]

(* --------------------------- AudioService ------------------------------ *)
\* URLs are sequences of characters: "", "a.mp3", "preview", "p.scdn.co", ".mp3?"
EmptyUrl == <<>>
Mp3Url == <<"a", ".", "m", "p", "3">>
PreviewUrl == <<"p", "r", "e", "v", "i", "e", "w">>
CdnUrl == <<"p", ".", "s", "c", "d", "n", ".", "c", "o">>
QueryUrl == <<".", "m", "p", "3", "?">>
Urls == {EmptyUrl, Mp3Url, PreviewUrl, CdnUrl, QueryUrl}

\* token in url
Contains(url, token) ==
    \E i \in 1 .. Len(url) - Len(token) + 1 : SubSeq(url, i, i + Len(token) - 1) = token

\* url.endswith(token)
EndsWith(url, token) ==
    Len(url) >= Len(token) /\ SubSeq(url, Len(url) - Len(token) + 1, Len(url)) = token

\* (mutant) ".mp3" in url instead of url.endswith(".mp3")
IsPreviewUrlAnyMp3(url) ==
    \/ Contains(url, <<"p", "r", "e", "v", "i", "e", "w">>)
    \/ Contains(url, <<"p", ".", "s", "c", "d", "n", ".", "c", "o">>)
    \/ Contains(url, <<".", "m", "p", "3">>)

\* "preview" in url or "p.scdn.co" in url or url.endswith(".mp3")
IsPreviewUrl(url) ==
    \/ Contains(url, <<"p", "r", "e", "v", "i", "e", "w">>)
    \/ Contains(url, <<"p", ".", "s", "c", "d", "n", ".", "c", "o">>)
    \/ EndsWith(url, <<".", "m", "p", "3">>)

\* hashlib.md5(url.encode()).hexdigest(): one digest per URL, distinct for these URLs
get_file_hash(url) ==
    CASE url = EmptyUrl -> "d41d" [] url = Mp3Url -> "7e0a" [] url = PreviewUrl -> "5ebe"
      [] url = CdnUrl -> "c2f1" [] url = QueryUrl -> "9b3d"

\* AUDIO_STORAGE_DIR / f"{file_hash}.mp3"
get_file_path(url) == <<get_file_hash(url), ".mp3">>

\* str(file_path.relative_to(_backend_root))
RelativePath(file_path) == <<"audio_storage">> \o file_path

\* What one requests.get and the streamed write may do: the body arrives whole; the
\* connection or the status fails before any byte; the stream breaks after `at`
\* chunks (a RequestException); open() fails; a write fails after `at` chunks (an
\* OSError), and the unlink of the clean-up works or not.
Outcomes ==
    [kind : {"ok", "connect", "status", "open"}, at : {0}, unlinked : {TRUE}]
        \cup [kind : {"stream"}, at : 0 .. BodyChunks - 1, unlinked : {FALSE}]
        \cup [kind : {"disk"}, at : 0 .. BodyChunks - 1, unlinked : {TRUE, FALSE}]

\* Optional[str]: the None a fetch returns in place of a path
NoPath == <<>>

AudioResult(fs, result, requests) == [files |-> fs, result |-> result, requests |-> requests]

\* the try block of download_preview, for a file that does not exist yet
Download(fs, url, net) ==
    LET file_path == get_file_path(url)
    IN CASE net.kind = "ok" ->
                AudioResult(Put(fs, file_path, BodyChunks), RelativePath(file_path), 1)
         [] net.kind \in {"connect", "status", "open"} -> AudioResult(fs, NoPath, 1)
         [] net.kind = "stream" -> AudioResult(Put(fs, file_path, net.at), NoPath, 1)
         [] net.kind = "disk" ->
                AudioResult(IF net.unlinked THEN fs ELSE Put(fs, file_path, net.at), NoPath, 1)

\* (mutant) no file_path.exists() check: every call downloads
download_preview_no_cache(fs, url, net) ==
    IF url = EmptyUrl THEN AudioResult(fs, NoPath, 0)
    ELSE IF ~IsPreviewUrl(url) THEN AudioResult(fs, NoPath, 0)
    ELSE Download(fs, url, net)

\* (mutant) the file found is opened "wb" before its path is returned
download_preview_rewrites(fs, url, net) ==
    IF url = EmptyUrl THEN AudioResult(fs, NoPath, 0)
    ELSE IF ~IsPreviewUrl(url) THEN AudioResult(fs, NoPath, 0)
    ELSE IF get_file_path(url) \in DOMAIN fs
    THEN AudioResult(Put(fs, get_file_path(url), 0), RelativePath(get_file_path(url)), 0)
    ELSE Download(fs, url, net)

download_preview(fs, url, net) ==
    IF url = EmptyUrl THEN AudioResult(fs, NoPath, 0)
    ELSE IF ~IsPreviewUrl(url) THEN AudioResult(fs, NoPath, 0)
    ELSE IF get_file_path(url) \in DOMAIN fs
    THEN AudioResult(fs, RelativePath(get_file_path(url)), 0)
    ELSE Download(fs, url, net)

get_audio_path(fs, url, net) ==
    IF url = EmptyUrl THEN AudioResult(fs, NoPath, 0)
    ELSE IF get_file_path(url) \in DOMAIN fs
    THEN AudioResult(fs, RelativePath(get_file_path(url)), 0)
    ELSE download_preview(fs, url, net)

file_exists(fs, url) ==
    IF url = EmptyUrl THEN AudioResult(fs, FALSE, 0)
    ELSE AudioResult(fs, get_file_path(url) \in DOMAIN fs, 0)

\* (mutant) True is returned whether or not the file was there and was removed
delete_audio_file_always_true(fs, url, unlinked) ==
    IF url = EmptyUrl THEN AudioResult(fs, FALSE, 0)
    ELSE IF get_file_path(url) \in DOMAIN fs /\ unlinked
    THEN AudioResult(Drop(fs, {get_file_path(url)}), TRUE, 0)
    ELSE AudioResult(fs, TRUE, 0)

\* delete_audio_file; `unlinked` is whether file_path.unlink() worked
delete_audio_file(fs, url, unlinked) ==
    IF url = EmptyUrl THEN AudioResult(fs, FALSE, 0)
    ELSE IF get_file_path(url) \in DOMAIN fs /\ unlinked
    THEN AudioResult(Drop(fs, {get_file_path(url)}), TRUE, 0)
    ELSE AudioResult(fs, FALSE, 0)

NoCall == [op |-> "none", url |-> EmptyUrl, result |-> NoPath, requests |-> 0]

(* ----------------------------- AuthService ----------------------------- *)
Emails == {<<"a", "@">>, <<"b", "@">>, <<"c", "@">>}
Usernames == {<<"k">>, <<"l">>, <<"m">>}
\* UserCreate.validate_password_length: 6 characters at least, 72 bytes at most
Passwords == {<<"p", "w">>, <<"s", "e", "c", "r", "e", "t">>}

UserPayloads == [email : Emails, username : Usernames, password : Passwords]

AuthResponse(status, detail, p, id) ==
    Response("register", status, detail, id, None, None, FALSE, <<>>)
        @@ [email |-> p.email, username |-> p.username]

\* (mutant) only the email is looked up
register_email_only(d, p) ==
    IF Len(p.password) < 6 \/ Len(p.password) > 72
    THEN [commits |-> <<>>, resp |-> AuthResponse(422, "Password must be at least 6 characters long", p, None)]
    ELSE IF \E i \in 1 .. Len(d.users) : d.users[i].email = p.email
    THEN [commits |-> <<>>, resp |-> AuthResponse(400, "Email or username already registered", p, None)]
    ELSE [commits |-> <<[d EXCEPT !.users = Append(@, [email |-> p.email, username |-> p.username])]>>,
          resp |-> AuthResponse(200, "", p, Len(d.users) + 1)]

\* AuthService.register behind the UserCreate schema
register(d, p) ==
    IF Len(p.password) < 6 \/ Len(p.password) > 72
    THEN [commits |-> <<>>, resp |-> AuthResponse(422, "Password must be at least 6 characters long", p, None)]
    ELSE IF \E i \in 1 .. Len(d.users) :
                d.users[i].email = p.email \/ d.users[i].username = p.username
    THEN [commits |-> <<>>, resp |-> AuthResponse(400, "Email or username already registered", p, None)]
    ELSE [commits |-> <<[d EXCEPT !.users = Append(@, [email |-> p.email, username |-> p.username])]>>,
          resp |-> AuthResponse(200, "", p, Len(d.users) + 1)]

(* -------------------------- SpotifyService ----------------------------- *)
\* A track of the upstream search result: its name, first artist, album name,
\* preview_url ("" when it has none), external url and first album image.
Tracks ==
    {t \in [name : {<<"X">>, <<"W">>}, artist : Artists, album : AlbumNames,
            preview_url : {EmptyUrl, CdnUrl}, spotify_url : {<<"o", "p", "e", "n">>},
            image : {<<>>, <<"i">>}] :
        /\ t.image = <<>> <=> (t.name = <<"X">> /\ t.preview_url = EmptyUrl)
        /\ t.name = <<"W">> => t.preview_url = EmptyUrl}

\* What the download of one import may do (a subset of Outcomes).
ImportOutcomes == {o \in Outcomes : o.kind \in {"ok", "connect"}}

\* The database together with the audio cache and its call record.
World(d, fs, last, prev) == [db |-> d, files |-> fs, last |-> last, prev |-> prev]

\* AudioService.download_preview(preview_url), called from an import
Fetch(w, url, net) ==
    LET a == download_preview(w.files, url, net)
    IN [w EXCEPT !.files = a.files, !.prev = w.last,
                 !.last = [op |-> "download_preview", url |-> url, result |-> a.result,
                           requests |-> a.requests]]

\* SongCreate(title, artist, album, genre = "Unknown", url, local_file_path, image_url)
TrackPayload(t, local_file_path) ==
    [title |-> t.name, artist |-> t.artist, album |-> t.album,
     genre |-> <<"U", "n", "k", "n", "o", "w", "n">>,
     url |-> IF t.preview_url # EmptyUrl THEN t.preview_url ELSE t.spotify_url,
     local_file_path |-> local_file_path, album_id |-> None, image_url |-> t.image]

Imported(worlds, view, made) == [worlds |-> worlds, view |-> view, made |-> made]

\* SongService.create_song(db, song_create, user_id) on the world w1 the
\* download left; `before` are the worlds the import has gone through since w.
\* (A value is bound with x \in {e} where it is used more than once, so that it
\* is computed once.)
StoreTrack(w1, before, t, fetched, local_file_path, user_id) ==
    CHOOSE c \in {Imported(before \o <<[w1 EXCEPT !.db = made.commits[1]]>>,
                           [id |-> made.resp.song, liked |-> made.resp.liked],
                           [id |-> made.resp.song, track |-> t, fetched |-> fetched,
                            path |-> local_file_path]) :
                     made \in {create_song(w1.db, TrackPayload(t, local_file_path), user_id)}} :
        TRUE

\* (mutant) the download is asked for every track, preview_url or not
CreateFromTrackAlwaysFetching(w, t, net, user_id) ==
    CHOOSE c \in {StoreTrack(w1, <<w1>>, t, TRUE, w1.last.result, user_id) :
                     w1 \in {Fetch(w, t.preview_url, net)}} : TRUE

\* the download of the preview, if the track has one, then create_song
CreateFromTrack(w, t, net, user_id) ==
    IF t.preview_url # EmptyUrl
    THEN CHOOSE c \in {StoreTrack(w1, <<w1>>, t, TRUE, w1.last.result, user_id) :
                          w1 \in {Fetch(w, t.preview_url, net)}} : TRUE
    ELSE StoreTrack(w, <<>>, t, FALSE, NoPath, user_id)

\* _search_track_raw: the first item that has a preview_url, else the first item
PreferPreview(items) ==
    LET with == SelectSeq(items, LAMBDA t : t.preview_url # EmptyUrl)
    IN IF with # <<>> THEN with[1] ELSE items[1]

ImportResponse(op, user_id, views, made, tracks) ==
    Response(op, 200, "", user_id, None, None, FALSE, views)
        @@ [made |-> made, tracks |-> tracks]

\* import_song_from_spotify: no duplicate check, the track found is always stored
import_song_from_spotify(w, items, net, user_id) ==
    IF items = <<>>
    THEN [worlds |-> <<>>,
          resp |-> NotFound("import_song_from_spotify", "No matching track found on Spotify",
                            user_id, None, None).resp @@ [made |-> <<>>, tracks |-> items]]
    ELSE CHOOSE h \in {[worlds |-> one.worlds,
                        resp |-> ImportResponse("import_song_from_spotify", user_id,
                                                <<one.view>>, <<one.made>>, items)] :
                          one \in {CreateFromTrack(w, PreferPreview(items), net, user_id)}} :
            TRUE

\* the existing song of a track: image_url is patched when it is empty
PatchImage(w, id, t) ==
    IF w.db.songs[id].image_url = <<>> /\ t.image # <<>>
    THEN <<[w EXCEPT !.db.songs[id].image_url = t.image]>>
    ELSE <<>>

Last(ws, w) == IF ws = <<>> THEN w ELSE ws[Len(ws)]

\* what one track of the loop did, followed by what the rest of the loop did
Joined(one, rest) ==
    [worlds |-> one.worlds \o rest.worlds, views |-> <<one.view>> \o rest.views,
     made |-> one.made \o rest.made]

RECURSIVE ImportLoopNoCheck(_, _, _, _, _)
\* (mutant) the loop without its duplicate check
ImportLoopNoCheck(w, tracks, nets, user_id, lowest) ==
    IF tracks = <<>> THEN [worlds |-> <<>>, views |-> <<>>, made |-> <<>>]
    ELSE CHOOSE r \in {Joined(Imported(c.worlds, c.view, <<c.made>>),
                              ImportLoopNoCheck(Last(c.worlds, w), Tail(tracks), Tail(nets),
                                                user_id, lowest)) :
                          c \in {CreateFromTrack(w, Head(tracks), Head(nets), user_id)}} :
            TRUE

\* one turn of the loop: the song of the track's (title, artist) if there is
\* one (.first() returns the lowest or the highest id), else a new song
ImportTrack(w, t, net, user_id, lowest) ==
    LET same == SongsByTitleArtist(w.db, [title |-> t.name, artist |-> t.artist])
    IN IF same # {}
       THEN CHOOSE r \in {Imported(PatchImage(w, existing, t),
                                   [id |-> existing,
                                    liked |-> CreatedLiked(w.db, existing, user_id)], <<>>) :
                             existing \in {x \in same : \A y \in same :
                                             IF lowest THEN x <= y ELSE x >= y}} : TRUE
       ELSE CHOOSE r \in {Imported(c.worlds, c.view, <<c.made>>) :
                             c \in {CreateFromTrack(w, t, net, user_id)}} : TRUE

RECURSIVE ImportLoop(_, _, _, _, _)
\* the for loop of import_songs_from_spotify
ImportLoop(w, tracks, nets, user_id, lowest) ==
    IF tracks = <<>> THEN [worlds |-> <<>>, views |-> <<>>, made |-> <<>>]
    ELSE CHOOSE r \in {Joined(one, ImportLoop(Last(one.worlds, w), Tail(tracks), Tail(nets),
                                              user_id, lowest)) :
                          one \in {ImportTrack(w, Head(tracks), Head(nets), user_id, lowest)}} :
            TRUE

\* The route raises its 404 for an empty list inside its own try block, whose
\* `except Exception` turns it into a 500.
import_songs_from_spotify(w, tracks, nets, user_id, lowest) ==
    IF tracks = <<>>
    THEN [worlds |-> <<>>,
          resp |-> Raise("import_songs_from_spotify", 500, "Error importing from Spotify",
                         user_id, None, None).resp @@ [made |-> <<>>, tracks |-> tracks]]
    ELSE CHOOSE h \in {[worlds |-> loop.worlds,
                        resp |-> ImportResponse("import_songs_from_spotify", user_id,
                                                loop.views, loop.made, tracks)] :
                          loop \in {ImportLoop(w, tracks, nets, user_id, lowest)}} : TRUE

\* The worker threads that serve requests side by side.
Workers == {1, 2}

\* A worker between two requests.
Idle == [pc |-> "idle", op |-> "none", user |-> None, song |-> None, url |-> EmptyUrl, at |-> 0]

Init ==
    /\ inflight = [w \in Workers |-> Idle]
    /\ files = <<>>
    /\ audioLast = NoCall
    /\ audioPrev = NoCall
    /\ songs = <<>>
    /\ songSeq = 0
    /\ albums = <<>>
    /\ albumSeq = 0
    /\ playlists = <<>>
    /\ playlistSeq = 0
    /\ playlistSongs = <<>>
    /\ likes = <<>>
    /\ users = <<>>
    /\ everLiked = {}
    /\ resp = Response("start", 200, "", None, None, None, FALSE, <<>>)


(* ------------------------------ requests ------------------------------- *)
SongIds == 1 .. MaxSongs
AlbumIds == 1 .. MaxAlbums
PlaylistIds == 1 .. MaxPlaylists

\* (skip, limit) of the list routes: skip >= 0, 1 <= limit <= 100, default (0, 20)
Pages == {<<0, 20>>}
Queries == {<<"x">>}
\* SongUpdate: every field is optional, and only the fields sent are written
SongPatches ==
    [title : Titles, artist : Artists, album : AlbumNames, genre : Genres, album_id : {None}]
        \cup {[album_id |-> a] : a \in AlbumIds}
AlbumPatches == {[title |-> t] : t \in AlbumNames}
PlaylistPatches == {[name |-> n] : n \in PlaylistNames}

WithinBounds(d) ==
    /\ d.songSeq <= MaxSongs
    /\ d.albumSeq <= MaxAlbums
    /\ d.playlistSeq <= MaxPlaylists
    /\ Len(d.likes) <= MaxLikes
    /\ Len(d.playlistSongs) <= MaxPlaylistSongs
    /\ Len(d.users) <= MaxUsers

\* The process dies before the request is answered: the client sees no response.
Crashed(r) == [r EXCEPT !.status = 0, !.detail = "crash", !.liked = FALSE, !.songs = <<>>]

\* One request: the handler runs to its end, or the process dies after k of its commits.
\* With `seen` the answer is recorded in resp; without, only the store is followed
\* and resp says no more than that some request went by.
Unseen == Response("unseen", 200, "", None, None, None, FALSE, <<>>)

Handle(h, seen) ==
    /\ \A i \in 1 .. Len(h.commits) : WithinBounds(h.commits[i])
    /\ \E k \in 0 .. Len(h.commits) :
          /\ Store(IF k = 0 THEN DB ELSE h.commits[k])
          /\ resp' = IF ~seen THEN Unseen
                      ELSE IF k = Len(h.commits) THEN h.resp ELSE Crashed(h.resp)
    /\ UNCHANGED audioVars
    /\ UNCHANGED inflight

FirstOf(S) == IF S = {} THEN {None} ELSE S

CreateSong(seen) == \E p \in SongPayloads, u \in Users : Handle(create_song(DB, p, u), seen)

GetSong == \E id \in SongIds, u \in Callers : Handle(get_song(DB, id, u), TRUE)

GetAllSongs ==
    \E pg \in Pages, u \in Callers : Handle(get_all_songs(DB, pg[1], pg[2], u), TRUE)

SearchSongs ==
    \E q \in Queries, pg \in Pages, u \in Callers :
        Handle(search_songs(DB, q, pg[1], pg[2], u), TRUE)

UpdateSong(seen) ==
    \E id \in SongIds, patch \in SongPatches, u \in Users :
        Handle(update_song(DB, id, patch, u), seen)

DeleteSong(seen) == \E id \in SongIds : Handle(delete_song(DB, id), seen)

LikeSong(seen) == \E id \in SongIds, u \in Users : Handle(like_song(DB, id, u), seen)

LikeSongWithData(seen) ==
    \E p \in SongPayloads, u \in Users :
        \E existing \in FirstOf(SongsByTitleArtist(DB, p)) :
            Handle(like_song_with_data(DB, p, u, existing), seen)

UnlikeSong(seen) ==
    \E id \in SongIds, u \in Users :
        \E row \in FirstOf(LikeRows(DB, u, id)) : Handle(unlike_song(DB, id, u, row), seen)

GetUserLikes ==
    \E pg \in Pages, u \in Users : Handle(get_user_likes(DB, u, pg[1], pg[2]), TRUE)

CreateAlbum(seen) == \E t \in AlbumNames : Handle(create_album(DB, t), seen)

UpdateAlbum(seen) ==
    \E id \in AlbumIds, patch \in AlbumPatches : Handle(update_album(DB, id, patch), seen)

DeleteAlbum(seen) == \E id \in AlbumIds : Handle(delete_album(DB, id), seen)

AddSongToAlbum(seen) ==
    \E a \in AlbumIds, id \in SongIds : Handle(add_song_to_album(DB, a, id), seen)

CreatePlaylist(seen) ==
    \E n \in PlaylistNames, u \in Users : Handle(create_playlist(DB, n, u), seen)

UpdatePlaylist(seen) ==
    \E id \in PlaylistIds, patch \in PlaylistPatches, u \in Users :
        Handle(update_playlist(DB, id, patch, u), seen)

DeletePlaylist(seen) ==
    \E id \in PlaylistIds, u \in Users : Handle(delete_playlist(DB, id, u), seen)

AddSongToPlaylist(seen) ==
    \E pl \in PlaylistIds, id \in SongIds, u \in Users :
        Handle(add_song_to_playlist(DB, pl, id, u), seen)

RemoveSongFromPlaylist(seen) ==
    \E pl \in PlaylistIds, id \in SongIds, u \in Users :
        \E row \in FirstOf(PlaylistSongRows(DB, pl, id)) :
            Handle(remove_song_from_playlist(DB, pl, id, u, row), seen)

\* One AudioService call, run to its end.
AudioCall(op, url, a) ==
    /\ files' = a.files
    /\ audioLast' = [op |-> op, url |-> url, result |-> a.result, requests |-> a.requests]
    /\ audioPrev' = audioLast
    /\ UNCHANGED catalogVars
    /\ UNCHANGED inflight

DownloadPreview ==
    \E url \in Urls :
        \E a \in {download_preview(files, url, net) : net \in Outcomes} :
            AudioCall("download_preview", url, a)

GetAudioPath ==
    \E url \in Urls :
        \E a \in {get_audio_path(files, url, net) : net \in Outcomes} :
            AudioCall("get_audio_path", url, a)

FileExists == \E url \in Urls : AudioCall("file_exists", url, file_exists(files, url))

DeleteAudioFile ==
    \E url \in Urls :
        \E a \in {delete_audio_file(files, url, unlinked) : unlinked \in BOOLEAN} :
            AudioCall("delete_audio_file", url, a)

NextAudio ==
    \/ DownloadPreview
    \/ GetAudioPath
    \/ FileExists
    \/ DeleteAudioFile

SpecAudio == Init /\ [][NextAudio]_vars

\* the tracks one upstream search returns (limit)
MaxTracks == 2

\* the authenticated user of the import routes
ImportCaller == 1

TrackLists == UNION {[1 .. n -> Tracks] : n \in 0 .. MaxTracks}

\* One import: it runs to its end, or the process dies after k of its effects
\* (a file written, a commit).
HandleImport(h) ==
    /\ \A i \in 1 .. Len(h.worlds) : WithinBounds(h.worlds[i].db)
    /\ \E k \in 0 .. Len(h.worlds) :
          LET w == IF k = 0 THEN World(DB, files, audioLast, audioPrev) ELSE h.worlds[k]
          IN /\ Store(w.db)
             /\ files' = w.files
             /\ audioLast' = w.last
             /\ audioPrev' = w.prev
             /\ resp' = IF k = Len(h.worlds) THEN h.resp ELSE Crashed(h.resp)
    /\ UNCHANGED inflight

ImportSongFromSpotify ==
    \E h \in {import_song_from_spotify(World(DB, files, audioLast, audioPrev), items, net,
                                        ImportCaller) :
                   items \in TrackLists, net \in ImportOutcomes} :
        HandleImport(h)

ImportSongsFromSpotify ==
    \E tracks \in TrackLists :
        \E h \in {import_songs_from_spotify(World(DB, files, audioLast, audioPrev), tracks,
                                             nets, ImportCaller, lowest) :
                       nets \in [1 .. Len(tracks) -> ImportOutcomes], lowest \in BOOLEAN} :
            HandleImport(h)

NextImport ==
    \/ ImportSongFromSpotify
    \/ ImportSongsFromSpotify

SpecImport == Init /\ [][NextImport]_vars

\* Album titles and album names of songs that can differ from one another.
AlbumTitles == AlbumNames \cup {<<"V">>}

CreateSongNamed ==
    \E p \in [title : Titles, artist : Artists, album : AlbumTitles, genre : Genres,
               album_id : {None} \cup (1 .. MaxAlbums)], u \in {None} :
        Handle(create_song(DB, p, u), TRUE)

UpdateSongNamed ==
    \E id \in SongIds, u \in {None},
       patch \in {[album |-> t] : t \in AlbumTitles}
                    \cup {[album_id |-> a] : a \in {None} \cup AlbumIds} :
        Handle(update_song(DB, id, patch, u), TRUE)

CreateAlbumTitled == \E t \in AlbumTitles : Handle(create_album(DB, t), TRUE)

UpdateAlbumTitled ==
    \E id \in AlbumIds, t \in AlbumTitles : Handle(update_album(DB, id, [title |-> t]), TRUE)

\* The album routes and the song writes that set Song.album and Song.album_id.
NextAlbumNames ==
    \/ CreateSongNamed
    \/ UpdateSongNamed
    \/ CreateAlbumTitled
    \/ UpdateAlbumTitled
    \/ DeleteAlbum(TRUE)
    \/ AddSongToAlbum(TRUE)

SpecAlbumNames == Init /\ [][NextAlbumNames]_vars

\* Every create and delete of songs, albums and playlists, and every write of
\* a Like or PlaylistSong row, one request after the other.
NextIntegrity ==
    \/ CreateSong(FALSE)
    \/ DeleteSong(FALSE)
    \/ CreateAlbum(FALSE)
    \/ DeleteAlbum(FALSE)
    \/ CreatePlaylist(FALSE)
    \/ DeletePlaylist(TRUE)
    \/ LikeSong(FALSE)
    \/ UnlikeSong(FALSE)
    \/ AddSongToPlaylist(FALSE)
    \/ RemoveSongFromPlaylist(FALSE)

SpecIntegrity == Init /\ [][NextIntegrity]_vars

(* ---------------- two requests at once, statement by statement --------- *)
\* like_song up to its existing_like query: an error is answered at once,
\* otherwise the worker goes on to its insert.
BeginLike(w) ==
    /\ inflight[w].pc = "idle"
    /\ \E id \in SongIds, u \in Users :
          LET r == like_song(DB, id, u)
          IN IF r.resp.status # 200
             THEN resp' = r.resp /\ inflight' = inflight
             ELSE /\ resp' = resp
                  /\ inflight' = [inflight EXCEPT ![w] =
                        [Idle EXCEPT !.pc = "insert", !.op = "like_song", !.user = u,
                                     !.song = id]]
    /\ Store(DB)
    /\ UNCHANGED audioVars

\* like_song_with_data up to its existing_like query: the song is looked up,
\* or created and committed, before that.
BeginLikeWithData(w) ==
    /\ inflight[w].pc = "idle"
    /\ \E p \in SongPayloads, u \in Users :
          \E existing \in FirstOf(SongsByTitleArtist(DB, p)) :
             LET r == like_song_with_data(DB, p, u, existing)
                 d1 == IF existing = None /\ r.commits # <<>> THEN r.commits[1] ELSE DB
             IN /\ WithinBounds(d1)
                /\ Store(d1)
                /\ IF r.resp.status # 200
                   THEN resp' = r.resp /\ inflight' = inflight
                   ELSE /\ resp' = resp
                        /\ inflight' = [inflight EXCEPT ![w] =
                              [Idle EXCEPT !.pc = "insert", !.op = "like_song_with_data",
                                           !.user = u, !.song = r.resp.song]]
    /\ UNCHANGED audioVars

\* db.add(like); song.liked = True; db.commit(), and the answer
FinishLike(w) ==
    /\ inflight[w].pc = "insert"
    /\ LET q == inflight[w]
           done == LikeCommits(DB, q.song, q.user)
           d1 == done[Len(done)]
       IN /\ WithinBounds(d1)
          /\ Store(d1)
          /\ resp' = Response(q.op, 200, "", q.user, q.song, None,
                              AddLikedStatus(d1, q.song, q.user), <<>>)
    /\ inflight' = [inflight EXCEPT ![w] = Idle]
    /\ UNCHANGED audioVars

\* Likes made by two workers at once, and unlike_song.
NextLikeRace ==
    \/ CreateSong(FALSE)
    \/ \E w \in Workers : BeginLike(w)
    \/ \E w \in Workers : BeginLikeWithData(w)
    \/ \E w \in Workers : FinishLike(w)
    \/ UnlikeSong(TRUE)

SpecLikeRace == Init /\ [][NextLikeRace]_vars

\* download_preview returns `result` to its caller.
FetchReturns(url, result, requests) ==
    /\ audioLast' = [op |-> "download_preview", url |-> url, result |-> result,
                     requests |-> requests]
    /\ audioPrev' = audioLast

FetchUrls == {EmptyUrl, Mp3Url, CdnUrl}

\* download_preview up to file_path.exists(): the calls that need no download
\* return here.
FetchCheck(w) ==
    /\ inflight[w].pc = "idle"
    /\ \E url \in FetchUrls :
          IF url = EmptyUrl \/ ~IsPreviewUrl(url)
          THEN FetchReturns(url, NoPath, 0) /\ inflight' = inflight
          ELSE IF get_file_path(url) \in DOMAIN files
          THEN FetchReturns(url, RelativePath(get_file_path(url)), 0) /\ inflight' = inflight
          ELSE /\ inflight' = [inflight EXCEPT ![w] =
                     [Idle EXCEPT !.pc = "get", !.op = "download_preview", !.url = url]]
               /\ UNCHANGED <<audioLast, audioPrev>>
    /\ UNCHANGED <<files, catalogVars>>

\* requests.get and raise_for_status, then open(file_path, "wb"): the file is
\* there, empty, whatever it held; or the request fails and None is returned.
FetchOpen(w) ==
    /\ inflight[w].pc = "get"
    /\ \/ /\ files' = Put(files, get_file_path(inflight[w].url), 0)
          /\ inflight' = [inflight EXCEPT ![w].pc = "write"]
          /\ UNCHANGED <<audioLast, audioPrev>>
       \/ /\ FetchReturns(inflight[w].url, NoPath, 1)
          /\ inflight' = [inflight EXCEPT ![w] = Idle]
          /\ files' = files
    /\ UNCHANGED catalogVars

\* f.write(chunk) at this writer's own offset
FetchWrite(w) ==
    /\ inflight[w].pc = "write"
    /\ inflight[w].at < BodyChunks
    /\ LET file_path == get_file_path(inflight[w].url)
           size == IF file_path \in DOMAIN files THEN files[file_path] ELSE 0
       IN files' = Put(files, file_path,
                       IF size > inflight[w].at THEN size ELSE inflight[w].at + 1)
    /\ inflight' = [inflight EXCEPT ![w].at = @ + 1]
    /\ UNCHANGED <<audioLast, audioPrev, catalogVars>>

\* iter_content raises a RequestException: None is returned, the file stays
FetchBreak(w) ==
    /\ inflight[w].pc = "write"
    /\ inflight[w].at < BodyChunks
    /\ FetchReturns(inflight[w].url, NoPath, 1)
    /\ inflight' = [inflight EXCEPT ![w] = Idle]
    /\ UNCHANGED <<files, catalogVars>>

\* the body is written: return str(relative_path)
FetchDone(w) ==
    /\ inflight[w].pc = "write"
    /\ inflight[w].at = BodyChunks
    /\ FetchReturns(inflight[w].url, RelativePath(get_file_path(inflight[w].url)), 1)
    /\ inflight' = [inflight EXCEPT ![w] = Idle]
    /\ UNCHANGED <<files, catalogVars>>

\* download_preview called by two workers at once.
NextFetchRace ==
    \/ \E w \in Workers : FetchCheck(w)
    \/ \E w \in Workers : FetchOpen(w)
    \/ \E w \in Workers : FetchWrite(w)
    \/ \E w \in Workers : FetchBreak(w)
    \/ \E w \in Workers : FetchDone(w)

SpecFetchRace == Init /\ [][NextFetchRace]_vars

Register == \E p \in UserPayloads : Handle(register(DB, p), TRUE)

\* The register route, one call after the other.
NextAuth == Register

SpecAuth == Init /\ [][NextAuth]_vars

\* The songs and likes routes, every answer recorded.
Next ==
    \/ CreateSong(TRUE)
    \/ GetSong
    \/ GetAllSongs
    \/ SearchSongs
    \/ UpdateSong(TRUE)
    \/ DeleteSong(TRUE)
    \/ LikeSong(TRUE)
    \/ LikeSongWithData(TRUE)
    \/ UnlikeSong(TRUE)
    \/ GetUserLikes

Spec == Init /\ [][Next]_vars

\* Every route that writes a Song row or a Like row; only the store is followed.
NextStore ==
    \/ CreateSong(FALSE)
    \/ UpdateSong(FALSE)
    \/ DeleteSong(FALSE)
    \/ LikeSong(FALSE)
    \/ LikeSongWithData(FALSE)
    \/ UnlikeSong(FALSE)
    \/ CreateAlbum(FALSE)
    \/ UpdateAlbum(FALSE)
    \/ DeleteAlbum(FALSE)
    \/ AddSongToAlbum(FALSE)

SpecStore == Init /\ [][NextStore]_vars

\* The playlist routes, over songs created beforehand.
NextPlaylists ==
    \/ CreateSong(FALSE)
    \/ CreatePlaylist(TRUE)
    \/ UpdatePlaylist(TRUE)
    \/ DeletePlaylist(TRUE)
    \/ AddSongToPlaylist(TRUE)
    \/ RemoveSongFromPlaylist(TRUE)

SpecPlaylists == Init /\ [][NextPlaylists]_vars

\* The body of POST /likes/with-data: a second title, so that a lookup can miss
LikePayloads ==
    [title : Titles \cup {<<"W">>}, artist : Artists, album : AlbumNames, genre : Genres,
     album_id : {None} \cup (1 .. MaxAlbums)]

\* skip and limit of GET /likes: windows that cut the list
LikePages == {<<0, 20>>, <<0, 1>>, <<1, 1>>}

\* The answer together with what the request carried.
Noting(h, request) == [h EXCEPT !.resp = @ @@ request]

LikeSongWithDataRequest ==
    \E p \in LikePayloads, u \in Users :
        \E existing \in FirstOf(SongsByTitleArtist(DB, p)) :
            Handle(Noting(like_song_with_data(DB, p, u, existing), [payload |-> p]), TRUE)

GetUserLikesRequest ==
    \E pg \in LikePages, u \in Users :
        Handle(Noting(get_user_likes(DB, u, pg[1], pg[2]), [skip |-> pg[1], limit |-> pg[2]]),
               TRUE)

\* The likes routes, with what each request carried, over songs created beforehand.
NextLikes ==
    \/ CreateSong(FALSE)
    \/ LikeSong(FALSE)
    \/ UnlikeSong(FALSE)
    \/ LikeSongWithDataRequest
    \/ GetUserLikesRequest

SpecLikes == Init /\ [][NextLikes]_vars

\* The album routes, over songs that are liked and put in playlists.
NextAlbums ==
    \/ CreateSong(FALSE)
    \/ LikeSong(FALSE)
    \/ CreatePlaylist(FALSE)
    \/ AddSongToPlaylist(FALSE)
    \/ CreateAlbum(TRUE)
    \/ UpdateAlbum(TRUE)
    \/ DeleteAlbum(TRUE)
    \/ AddSongToAlbum(TRUE)

SpecAlbums == Init /\ [][NextAlbums]_vars

(* ------------------------------ properties ----------------------------- *)
\* What the likes and songs tables hold, read off the state itself.
HasLike(u, s) == \E i \in 1 .. Len(likes) : likes[i].user_id = u /\ likes[i].song_id = s

HasAnyLike(s) == \E i \in 1 .. Len(likes) : likes[i].song_id = s

RowsOf(u) == SelectSeq(likes, LAMBDA l : l.user_id = u)

\* The request just answered (not cut short by a crash) was `op`.
Answered(op) == resp'.op = op /\ resp'.status # 0

\* C1: one-way flag. Once a Like row has existed for a song, the stored Song.liked
\* of that song is true in every later state in which the song still exists, also
\* after all its Like rows are gone.
C1_OneWayFlag == \A s \in everLiked \cap DOMAIN songs : songs[s].liked = TRUE

C1_Witness ==
    \E s \in everLiked \cap DOMAIN songs : ~HasAnyLike(s) /\ songs[s].liked = TRUE

\* C2: in every committed state, a crash inside like or likeWithData included, every
\* song that has a Like row exists and has Song.liked = true.
C2_LikeAndFlagTogether ==
    \A i \in 1 .. Len(likes) :
        likes[i].song_id \in DOMAIN songs /\ songs[likes[i].song_id].liked = TRUE

C2_Witness ==
    /\ resp.status = 0
    /\ resp.op = "like_song_with_data"
    /\ resp.song \in DOMAIN songs
    /\ ~HasAnyLike(resp.song)
    /\ likes # <<>>

\* C3: like(song, user) on an existing song the user has no Like row for appends
\* exactly one Like row (user, song), sets Song.liked of that song, changes nothing
\* else, and answers the song view with liked = true.
C3_LikeInsertsOneRow ==
    [][(Answered("like_song") /\ resp'.song \in DOMAIN songs
            /\ ~HasLike(resp'.user, resp'.song))
        => /\ resp'.status = 200
           /\ resp'.liked = TRUE
           /\ likes' = Append(likes, [user_id |-> resp'.user, song_id |-> resp'.song])
           /\ songs' = [songs EXCEPT ![resp'.song].liked = TRUE]]_vars

C3_Witness ==
    /\ resp.op = "like_song"
    /\ resp.status = 200
    /\ resp.liked = TRUE
    /\ Len(likes) = 2
    /\ likes[2] = [user_id |-> resp.user, song_id |-> resp.song]
    /\ likes[1].song_id # resp.song

\* C4: liking a (user, song) pair that already has a Like row fails with the
\* duplicate-like error (400, "Song already liked") and leaves every Like row and
\* every Song.liked as it was.
C4_DuplicateLikeRejected ==
    [][((Answered("like_song") \/ Answered("like_song_with_data"))
            /\ HasLike(resp'.user, resp'.song))
        => /\ resp'.status = 400
           /\ resp'.detail = "Song already liked"
           /\ likes' = likes
           /\ songs' = songs]_vars

C4_Witness ==
    /\ resp.op \in {"like_song", "like_song_with_data"}
    /\ resp.status = 400
    /\ HasLike(resp.user, resp.song)

\* C5: like(song, user) with an id that resolves to no song fails with 404
\* "Song not found" (never with the duplicate-like error) and inserts no Like row.
C5_LikeMissingSong ==
    [][(Answered("like_song") /\ resp'.song \notin DOMAIN songs)
        => /\ resp'.status = 404
           /\ resp'.detail = "Song not found"
           /\ likes' = likes
           /\ songs' = songs]_vars

C5_Witness ==
    /\ resp.op = "like_song"
    /\ resp.status = 404
    /\ resp.song \notin DOMAIN songs
    /\ likes # <<>>

\* C6: unlike(song, user) with no Like row for the pair, whether or not the song
\* exists, fails with 404 "Like not found" and leaves every Like row and every
\* Song.liked as it was.
C6_UnlikeMissingLike ==
    [][(Answered("unlike_song") /\ ~HasLike(resp'.user, resp'.song))
        => /\ resp'.status = 404
           /\ resp'.detail = "Like not found"
           /\ likes' = likes
           /\ songs' = songs]_vars

C6_Witness ==
    /\ resp.op = "unlike_song"
    /\ resp.status = 404
    /\ resp.song \in DOMAIN songs
    /\ HasAnyLike(resp.song)

\* C7: a successful unlike(song, user) leaves no Like row of the pair, leaves every
\* Song.liked (that song's too) as it was, and keeps every other Like row, in order.
C7_UnlikeFrame ==
    [][(Answered("unlike_song") /\ resp'.status = 200)
        => /\ \A i \in 1 .. Len(likes') :
                ~(likes'[i].user_id = resp'.user /\ likes'[i].song_id = resp'.song)
           /\ likes' = SelectSeq(likes, LAMBDA l :
                           ~(l.user_id = resp'.user /\ l.song_id = resp'.song))
           /\ Len(likes') = Len(likes) - 1
           /\ songs' = songs]_vars

C7_Witness ==
    /\ resp.op = "unlike_song"
    /\ resp.status = 200
    /\ ~HasLike(resp.user, resp.song)
    /\ HasAnyLike(resp.song)
    /\ songs[resp.song].liked = TRUE

\* The liked field the view rule asks of a song for a caller.
ViewRule(caller, s) == IF caller # None THEN HasLike(caller, s) ELSE HasAnyLike(s)

\* C8: view composition. In every song read (get, list, search) the liked field is,
\* for a caller authenticated as U, whether a Like row (U, song) exists and, for an
\* anonymous caller, whether any Like row of the song exists.
C8_ViewComposition ==
    /\ (resp.op = "get_song" /\ resp.status = 200)
          => resp.liked = ViewRule(resp.user, resp.song)
    /\ resp.op \in {"get_all_songs", "search_songs"}
          => \A i \in 1 .. Len(resp.songs) :
                 resp.songs[i].liked = ViewRule(resp.user, resp.songs[i].id)

C8_Witness ==
    /\ resp.op = "get_all_songs"
    /\ resp.user # None
    /\ Len(resp.songs) = 2
    /\ resp.songs[1].liked = FALSE
    /\ HasAnyLike(resp.songs[1].id)
    /\ resp.songs[2].liked = TRUE

\* The parts of the end-to-end run that do not depend on the anonymous view:
\* listLikes of a user with one Like row is that one song with liked = true,
\* listLikes of a user with no Like row is empty, and get-song as a user without
\* a Like row of a song that was liked before shows liked = false.
EndToEndPerUser ==
    /\ (resp.op = "get_user_likes" /\ Len(RowsOf(resp.user)) = 1)
          => resp.songs = <<[id |-> RowsOf(resp.user)[1].song_id, liked |-> TRUE]>>
    /\ (resp.op = "get_user_likes" /\ Len(RowsOf(resp.user)) = 0)
          => resp.songs = <<>>
    /\ (resp.op = "get_song" /\ resp.status = 200 /\ resp.user # None
            /\ resp.song \in everLiked /\ ~HasLike(resp.user, resp.song))
          => resp.liked = FALSE

\* An anonymous get-song of a song that was liked and has no Like row left.
AnonymousAfterUnlike ==
    /\ resp.op = "get_song"
    /\ resp.status = 200
    /\ resp.user = None
    /\ resp.song \in everLiked
    /\ ~HasAnyLike(resp.song)

\* C9 as claimed: after create, like and unlike by user A, listLikes of A is empty,
\* get-song as A shows liked = false, and an anonymous get-song still shows
\* liked = true.
C9_EndToEndAsClaimed == EndToEndPerUser /\ (AnonymousAfterUnlike => resp.liked = TRUE)

\* C9 amended: as claimed, except that the anonymous get-song shows liked = false
\* once no Like row of the song is left; only the stored Song.liked stays true.
C9_EndToEnd ==
    /\ EndToEndPerUser
    /\ AnonymousAfterUnlike => (resp.liked = FALSE /\ songs[resp.song].liked = TRUE)

C9_Witness == AnonymousAfterUnlike /\ resp.liked = FALSE

\* C10: deleting a song removes, in one commit, the song, every Like row and every
\* PlaylistSong row that references it, and leaves the rows of other songs as they
\* were.
C10_DeleteSongCascades ==
    [][(Answered("delete_song") /\ resp'.song \in DOMAIN songs)
        => /\ resp'.status = 200
           /\ resp'.song \notin DOMAIN songs'
           /\ likes' = SelectSeq(likes, LAMBDA l : l.song_id # resp'.song)
           /\ playlistSongs' = SelectSeq(playlistSongs, LAMBDA r : r.song_id # resp'.song)
           /\ \A s \in DOMAIN songs \ {resp'.song} :
                 s \in DOMAIN songs' /\ songs'[s] = songs[s]]_vars

\* The songs attached to album a, read off the songs table.
AttachedTo(a) == {s \in DOMAIN songs : songs[s].album_id = a}

\* C11: deleting an existing album either changes nothing (the request died before
\* its commit) or removes, in one commit, the album, every song whose album_id is
\* that album and every Like and PlaylistSong row of those songs; the other songs,
\* the other rows and the playlists stay as they were.
C11_DeleteAlbumCascades ==
    [][(resp'.op = "delete_album" /\ resp'.target \in DOMAIN albums)
        => LET gone == AttachedTo(resp'.target)
           IN \/ /\ resp'.status = 0
                 /\ UNCHANGED <<songs, albums, playlists, playlistSongs, likes>>
              \/ /\ resp'.status = 200
                 /\ DOMAIN albums' = DOMAIN albums \ {resp'.target}
                 /\ DOMAIN songs' = DOMAIN songs \ gone
                 /\ \A s \in DOMAIN songs' : songs'[s] = songs[s]
                 /\ likes' = SelectSeq(likes, LAMBDA l : l.song_id \notin gone)
                 /\ playlistSongs' = SelectSeq(playlistSongs, LAMBDA r : r.song_id \notin gone)
                 /\ playlists' = playlists]_vars

C11_Witness ==
    /\ resp.op = "delete_album"
    /\ resp.status = 200
    /\ \E s \in everLiked : s \notin DOMAIN songs
    /\ \E t \in DOMAIN songs : HasAnyLike(t) /\ songs[t].album_id = None

\* Membership, read off the playlist_songs table.
Member(pl, s) ==
    \E i \in 1 .. Len(playlistSongs) :
        playlistSongs[i].playlist_id = pl /\ playlistSongs[i].song_id = s

\* The caller of the request just answered owns the playlist it named.
ByOwner == resp'.target \in DOMAIN playlists /\ playlists[resp'.target].owner_id = resp'.user

NoDuplicateMembership ==
    \A i, j \in 1 .. Len(playlistSongs) : playlistSongs[i] = playlistSongs[j] => i = j

\* C12: no playlist ever holds two PlaylistSong rows of the same song, and the owner
\* adding a song that is already in the playlist is refused (400, "Song already in
\* playlist") with the memberships left as they were.
C12_NoDuplicateInPlaylist ==
    /\ []NoDuplicateMembership
    /\ [][(Answered("add_song_to_playlist") /\ ByOwner /\ Member(resp'.target, resp'.song))
            => /\ resp'.status = 400
               /\ resp'.detail = "Song already in playlist"
               /\ playlistSongs' = playlistSongs]_vars

C12_Witness ==
    /\ resp.op = "add_song_to_playlist"
    /\ resp.status = 400
    /\ Member(resp.target, resp.song)
    /\ Len(playlistSongs) = 2

\* C13: the owner removing a song that is not in the playlist gets 404 "Song not in
\* playlist" and no membership changes; removing a member deletes the one row of
\* that (playlist, song) pair and keeps every other row, in order.
C13_RemoveFromPlaylist ==
    [][(Answered("remove_song_from_playlist") /\ ByOwner)
        => IF Member(resp'.target, resp'.song)
           THEN /\ resp'.status = 200
                /\ playlistSongs' = SelectSeq(playlistSongs, LAMBDA r :
                        ~(r.playlist_id = resp'.target /\ r.song_id = resp'.song))
                /\ Len(playlistSongs') = Len(playlistSongs) - 1
           ELSE /\ resp'.status = 404
                /\ resp'.detail = "Song not in playlist"
                /\ playlistSongs' = playlistSongs]_vars

C13_Witness ==
    /\ resp.op = "remove_song_from_playlist"
    /\ resp.status = 200
    /\ ~Member(resp.target, resp.song)
    /\ \E s \in DOMAIN songs : Member(resp.target, s)

PlaylistWrites ==
    {"update_playlist", "delete_playlist", "add_song_to_playlist", "remove_song_from_playlist"}

\* C14: update, delete, add-song and remove-song on a playlist that does not exist
\* answer 404 "Playlist not found" whoever calls; on a playlist the caller does not
\* own they answer 403; in both cases no row of any table changes.
C14_OwnerOnly ==
    [][(resp'.op \in PlaylistWrites /\ resp'.status # 0)
        => /\ resp'.target \notin DOMAIN playlists
                => /\ resp'.status = 404
                   /\ resp'.detail = "Playlist not found"
                   /\ UNCHANGED <<songs, albums, playlists, playlistSongs, likes>>
           /\ (resp'.target \in DOMAIN playlists /\ ~ByOwner)
                => /\ resp'.status = 403
                   /\ UNCHANGED <<songs, albums, playlists, playlistSongs, likes>>]_vars

C14_Witness ==
    /\ resp.op = "remove_song_from_playlist"
    /\ resp.status = 403
    /\ Member(resp.target, resp.song)
    /\ playlists[resp.target].owner_id # resp.user

\* The songs that carry exactly the (title, artist) of payload p.
SameTitleArtist(p) ==
    {s \in DOMAIN songs : songs[s].title = p.title /\ songs[s].artist = p.artist}

\* The album reference of payload p can be stored: it is absent or names an album.
AlbumResolves(p) == p.album_id = None \/ p.album_id \in DOMAIN albums

\* like applied to song s for user u by the step: Conflict (400) and nothing written
\* when the Like row exists, else the row appended and the flag of s set.
LikeRuleApplied(u, s, before) ==
    IF \E i \in 1 .. Len(likes) : likes[i] = [user_id |-> u, song_id |-> s]
    THEN /\ resp'.status = 400
         /\ resp'.detail = "Song already liked"
         /\ likes' = likes
         /\ songs' = before
    ELSE /\ resp'.status = 200
         /\ resp'.liked = TRUE
         /\ likes' = Append(likes, [user_id |-> u, song_id |-> s])
         /\ songs' = [before EXCEPT ![s].liked = TRUE]

\* The songs table after one song made of payload p is inserted under id s.
WithNewSong(s, p) ==
    [x \in DOMAIN songs \cup {s} |->
        IF x = s
        THEN [title |-> p.title, artist |-> p.artist, album |-> p.album, genre |-> p.genre,
              album_id |-> p.album_id, liked |-> FALSE]
        ELSE songs[x]]

C16_LikeWithDataAtomic ==
    [][(resp'.op = "like_song_with_data" /\ SameTitleArtist(resp'.payload) = {})
        => \/ songs' = songs /\ likes' = likes
           \/ \E s \in DOMAIN songs' \ DOMAIN songs :
                 /\ songs' = [WithNewSong(s, resp'.payload) EXCEPT ![s].liked = TRUE]
                 /\ likes' = Append(likes, [user_id |-> resp'.user, song_id |-> s])]_vars

\* The window of listLikes: of the user's Like rows, newest first, those after the
\* first `skip`, at most `limit` of them, each as a song view with liked = true.
LikesWindow(u, skip, limit) ==
    LET mine == RowsOf(u)
        n == Len(mine) - skip
        k == IF n < 0 THEN 0 ELSE IF limit < n THEN limit ELSE n
    IN [i \in 1 .. k |-> [id |-> mine[n - i + 1].song_id, liked |-> TRUE]]

\* C17: listLikes(user, skip, limit) answers exactly the songs of the user's Like
\* rows inside the skip/limit window, newest Like first, each with liked = true;
\* a song only other users like is never in it.
C17_ListLikes ==
    resp.op = "get_user_likes"
        => /\ resp.songs = LikesWindow(resp.user, resp.skip, resp.limit)
           /\ \A i \in 1 .. Len(resp.songs) : HasLike(resp.user, resp.songs[i].id)

C17_Witness ==
    /\ resp.op = "get_user_likes"
    /\ resp.skip = 1
    /\ resp.limit = 1
    /\ Len(RowsOf(resp.user)) = 2
    /\ resp.songs = <<[id |-> likes[1].song_id, liked |-> TRUE]>>

\* fetch(url) is download_preview or get_audio_path.
FetchOps == {"download_preview", "get_audio_path"}

\* The last two AudioService calls were fetches of one url, one after the other.
TwoFetches ==
    audioPrev.op \in FetchOps /\ audioLast.op \in FetchOps /\ audioPrev.url = audioLast.url

SameResultOneDownload ==
    audioLast.result = audioPrev.result /\ audioPrev.requests + audioLast.requests <= 1

\* The first of the two fetches made a request and came back empty.
FirstDownloadFailed == audioPrev.requests = 1 /\ audioPrev.result = NoPath

\* C18 as claimed: for every url, two sequential fetches of it return the same
\* local path and together make at most one network download.
C18_FetchIdempotentAsClaimed == TwoFetches => SameResultOneDownload

\* C18 amended: two sequential fetches of one url return the same result and
\* together make at most one network download, unless the download of the first
\* failed; then the second fetch is free to download again and to return a path.
C18_FetchIdempotent == (TwoFetches /\ ~FirstDownloadFailed) => SameResultOneDownload

C18_Witness ==
    /\ TwoFetches
    /\ audioPrev.requests = 1
    /\ audioPrev.result # NoPath
    /\ audioLast.result = audioPrev.result
    /\ audioLast.requests = 0

\* C19: a fetch of a url whose file exists under the cache root returns that
\* file's path relative to the storage root, makes no request and leaves every
\* file as it was.
C19_CachedFetch ==
    [][(audioLast'.op \in FetchOps /\ audioLast'.url # EmptyUrl
            /\ get_file_path(audioLast'.url) \in DOMAIN files)
        => /\ audioLast'.result = <<"audio_storage">> \o get_file_path(audioLast'.url)
           /\ audioLast'.requests = 0
           /\ files' = files]_vars

C19_Witness ==
    /\ audioLast.op = "download_preview"
    /\ audioLast.requests = 0
    /\ audioLast.result = <<"audio_storage">> \o get_file_path(audioLast.url)
    /\ audioPrev.op = "file_exists"
    /\ audioPrev.url = audioLast.url
    /\ audioPrev.result = TRUE
    /\ files[get_file_path(audioLast.url)] = BodyChunks

NotPreviewShaped(url) ==
    /\ ~Contains(url, <<"p", "r", "e", "v", "i", "e", "w">>)
    /\ ~Contains(url, <<"p", ".", "s", "c", "d", "n", ".", "c", "o">>)
    /\ ~EndsWith(url, <<".", "m", "p", "3">>)

\* C20: a fetch of a url that has no "preview" in it, no "p.scdn.co" in it and no
\* ".mp3" at its end returns empty, makes no request and creates no file.
C20_NonPreviewRejected ==
    [][(audioLast'.op \in FetchOps /\ NotPreviewShaped(audioLast'.url))
        => /\ audioLast'.result = NoPath
           /\ audioLast'.requests = 0
           /\ files' = files]_vars

C20_Witness ==
    /\ audioLast.op \in FetchOps
    /\ audioLast.url = QueryUrl
    /\ audioLast.result = NoPath
    /\ audioLast.requests = 0
    /\ get_file_path(Mp3Url) \in DOMAIN files
    /\ get_file_path(QueryUrl) \notin DOMAIN files

\* C21: a fetch whose download failed (it made its request and returned empty)
\* leaves no file, whole or partial, at hash(url).
C21_FailedDownloadLeavesNoFile ==
    [][(audioLast'.op \in FetchOps /\ audioLast'.requests = 1
            /\ audioLast'.result = NoPath)
        => get_file_path(audioLast'.url) \notin DOMAIN files']_vars

\* The file of url is in the cache.
Cached(url) == url # EmptyUrl /\ get_file_path(url) \in DOMAIN files

CountPair(tbl, t) ==
    Cardinality({s \in DOMAIN tbl : tbl[s].title = t.name /\ tbl[s].artist = t.artist})

\* The (title, artist) of track t is in the upstream result ts.
InResult(ts, t) == \E i \in 1 .. Len(ts) : ts[i].name = t.name /\ ts[i].artist = t.artist

\* C23: a bulk import that answers leaves, for every (title, artist) of the
\* upstream result, max(1, number before) songs of that pair, also when the
\* pair is in the result more than once; the other pairs keep their number.
C23_BulkImportNoDuplicates ==
    [][(resp'.op = "import_songs_from_spotify" /\ resp'.status = 200)
        => \A t \in Tracks :
             CountPair(songs', t) = IF InResult(resp'.tracks, t)
                                    THEN (IF CountPair(songs, t) > 1
                                          THEN CountPair(songs, t) ELSE 1)
                                    ELSE CountPair(songs, t)]_vars

C23_Witness ==
    /\ resp.op = "import_songs_from_spotify"
    /\ resp.status = 200
    /\ Len(resp.tracks) = 2
    /\ resp.tracks[1].name = resp.tracks[2].name
    /\ resp.tracks[1].preview_url # resp.tracks[2].preview_url
    /\ Len(resp.made) = 1
    /\ songSeq = 1
    /\ CountPair(songs, resp.tracks[1]) = 1

ImportOps == {"import_song_from_spotify", "import_songs_from_spotify"}

\* C24: an import that answers has asked the audio cache for a file only for
\* the tracks that have a preview URL; every track it stores becomes a song,
\* and that song has no local path when the track has no preview URL or the
\* download returned nothing.
C24_ImportFetchesOnlyPreviews ==
    [][(resp'.op \in ImportOps /\ resp'.status = 200)
        => /\ \A i \in 1 .. Len(resp'.made) :
                LET m == resp'.made[i]
                IN /\ m.id \in DOMAIN songs' \ DOMAIN songs
                   /\ songs'[m.id].title = m.track.name
                   /\ m.fetched <=> m.track.preview_url # EmptyUrl
                   /\ (m.track.preview_url = EmptyUrl \/ m.path = NoPath)
                        => songs'[m.id].local_file_path = NoPath
           /\ (\A i \in 1 .. Len(resp'.tracks) : resp'.tracks[i].preview_url = EmptyUrl)
                => /\ files' = files
                   /\ audioLast' = audioLast
                   /\ audioPrev' = audioPrev
           /\ resp'.op = "import_song_from_spotify" => Len(resp'.made) = 1
           /\ \A i \in 1 .. Len(resp'.tracks) :
                resp'.op = "import_songs_from_spotify"
                    => CountPair(songs', resp'.tracks[i]) >= 1]_vars

C24_Witness ==
    /\ resp.op = "import_songs_from_spotify"
    /\ resp.status = 200
    /\ Len(resp.made) = 2
    /\ resp.made[1].track.preview_url = EmptyUrl
    /\ resp.made[2].track.preview_url = CdnUrl
    /\ resp.made[2].path = NoPath
    /\ audioLast.op = "download_preview"
    /\ audioLast.url = CdnUrl
    /\ audioLast.requests = 1
    /\ \A i \in 1 .. 2 : /\ resp.made[i].id \in DOMAIN songs
                         /\ songs[resp.made[i].id].local_file_path = NoPath

\* Some user has the email, or the username, of payload p.
Registered(us, p) ==
    \E i \in 1 .. Len(us) : us[i].email = p.email \/ us[i].username = p.username

\* C26: register calls made one after the other never leave two users with one
\* email or with one username: a registration whose email or username is that
\* of an existing user is answered 400 and adds no user.
C26_RegisterUnique ==
    /\ [](\A i, j \in 1 .. Len(users) :
            i # j => users[i].email # users[j].email /\ users[i].username # users[j].username)
    /\ [][(Answered("register") /\ Registered(users, resp'))
            => resp'.status \in {400, 422} /\ users' = users]_vars

C26_Witness ==
    /\ resp.op = "register"
    /\ resp.status = 400
    /\ Len(users) = 2
    /\ \E i \in 1 .. Len(users) : users[i].username = resp.username
    /\ \A i \in 1 .. Len(users) : users[i].email # resp.email

\* C25: add_song_to_album on an album and a song that exist sets, in a single
\* commit, the song's album_id to the album's id and its album to the album's
\* title, and changes nothing else; when the album or the song does not exist
\* it answers 404 and changes nothing.
C25_AttachSetsBoth ==
    [][resp'.op = "add_song_to_album"
        => LET a == resp'.target
               s == resp'.song
           IN /\ resp'.status \in {0, 200, 404}
              /\ albums' = albums /\ likes' = likes /\ playlists' = playlists
              /\ playlistSongs' = playlistSongs /\ songSeq' = songSeq
              /\ DOMAIN songs' = DOMAIN songs
              /\ \A x \in DOMAIN songs \ {s} : songs'[x] = songs[x]
              /\ resp'.status = 200
                    => /\ a \in DOMAIN albums /\ s \in DOMAIN songs
                       /\ songs'[s] = [songs[s] EXCEPT !.album_id = a,
                                                      !.album = albums[a].title]
              /\ resp'.status # 200 => songs' = songs
              /\ (a \notin DOMAIN albums \/ s \notin DOMAIN songs)
                    <=> resp'.status = 404]_vars

C25_Witness ==
    /\ resp.op = "add_song_to_album"
    /\ resp.status = 200
    /\ resp.song \in DOMAIN songs
    /\ resp.target \in DOMAIN albums
    /\ songs[resp.song].album_id = resp.target
    /\ songs[resp.song].album = <<"V">>
    /\ albums[resp.target].title = <<"V">>
    /\ \E x \in DOMAIN songs : songs[x].album_id = None /\ songs[x].album = <<"Z">>

\* C29: every song whose album_id is the id of an existing album has, as its
\* album, the current title of that album.
C29_AlbumNameConsistent ==
    \A s \in DOMAIN songs :
        songs[s].album_id \in DOMAIN albums => songs[s].album = albums[songs[s].album_id].title

\* C30: every Like row is of a song that exists and every PlaylistSong row is
\* of a playlist and a song that exist; delete_playlist removes the playlist
\* with all its PlaylistSong rows, and no song.
C30_ReferentialIntegrity ==
    /\ [](/\ \A i \in 1 .. Len(likes) : likes[i].song_id \in DOMAIN songs
          /\ \A i \in 1 .. Len(playlistSongs) :
                /\ playlistSongs[i].playlist_id \in DOMAIN playlists
                /\ playlistSongs[i].song_id \in DOMAIN songs)
    /\ [][(resp'.op = "delete_playlist" /\ resp'.status = 200)
            => /\ resp'.target \in DOMAIN playlists
               /\ DOMAIN playlists' = DOMAIN playlists \ {resp'.target}
               /\ playlistSongs' = SelectSeq(playlistSongs,
                                             LAMBDA r : r.playlist_id # resp'.target)
               /\ songs' = songs
               /\ likes' = likes]_vars

C30_Witness ==
    /\ resp.op = "delete_playlist"
    /\ resp.status = 200
    /\ playlistSeq = 1
    /\ playlists = <<>>
    /\ playlistSongs = <<>>
    /\ \E s \in everLiked : s \notin DOMAIN songs
    /\ \E s \in DOMAIN songs : HasAnyLike(s)

\* C27: with two like requests for one user and one song running at once, the
\* existence check and the insert being separate statements, there is never
\* more than one Like row of a (user, song), and an unlike_song that succeeds
\* while no like is in flight leaves the user without a Like row of the song.
C27_LikeUniqueUnderRace ==
    /\ [](\A u \in Users, s \in DOMAIN songs : Cardinality(LikeRows(DB, u, s)) <= 1)
    /\ [][(Answered("unlike_song") /\ resp'.status = 200
             /\ \A w \in Workers : inflight[w].pc = "idle")
            => ~(\E i \in 1 .. Len(likes') :
                    likes'[i].user_id = resp'.user /\ likes'[i].song_id = resp'.song)]_vars

\* A step in which a download_preview call returns.
FetchReturned ==
    /\ audioPrev' = audioLast
    /\ \/ inflight' = inflight
       \/ \E w \in Workers : inflight[w].pc # "idle" /\ inflight'[w].pc = "idle"

\* C28: with two download_preview calls for one url running at once, no call
\* returns a path while the file at that path is only partly written, and once
\* both have returned a path the file of the url is whole.
C28_FetchRaceBenign ==
    /\ [][(FetchReturned /\ audioLast'.result # NoPath)
            => /\ get_file_path(audioLast'.url) \in DOMAIN files'
               /\ files'[get_file_path(audioLast'.url)] = BodyChunks]_vars
    /\ []((/\ \A w \in Workers : inflight[w].pc = "idle"
           /\ audioLast.url = audioPrev.url
           /\ audioLast.result # NoPath
           /\ audioPrev.result # NoPath)
            => files[get_file_path(audioLast.url)] = BodyChunks)

====
